---- MODULE Spec2Model ----
(***************************************************************************)
(* A model of the OCR-text extraction engine of src/services/aiService.ts  *)
(* (extractDataFromText).  Texts are strings; the regular expressions of   *)
(* the source are values interpreted by a backtracking matcher that keeps  *)
(* the priorities of the JavaScript engine (leftmost match, alternatives   *)
(* in order, greedy quantifiers).  The extraction runs as a sequence of    *)
(* steps, one per section of the function, over the function's locals;     *)
(* pulseLog is the last console message about pulse.  The page around the  *)
(* engine is modelled by the state of its components: the upload batches   *)
(* of pages/Index.tsx, the API key test of components/AISettings.tsx and   *)
(* the row editing of components/DataTable.tsx, one action per handler or  *)
(* per continuation of a handler after an await.                           *)
(***************************************************************************)
EXTENDS Integers, Sequences, FiniteSets, TLC

VARIABLES text, pc, processedText, month, day, time, period, sys, dia, pulse,
          pulseLog, result, item

\* the state of the page (Index.tsx lines 27-34) and, per invocation of
\* handleImageUpload, its locals and its position (uploads); toast is the
\* title of the last toast; cancelled is the set of invocations whose loop
\* was running when Cancel was pressed
VARIABLES data, processing, processingItems, currentProcessingIndex,
          showProcessingModal, toast, uploads, cancelled

\* the state of the settings form (AISettings.tsx lines 12-19), the keys of
\* the testAPIKey calls in flight (testing) and the last finished test
VARIABLES settings, isTestingKey, keyStatus, testing, lastTest

\* the state of the table (DataTable.tsx lines 20-21)
VARIABLES editingId, editData

indexVars ==
  <<data, processing, processingItems, currentProcessingIndex,
    showProcessingModal, toast, uploads, cancelled>>

settingsVars == <<settings, isTestingKey, keyStatus, testing, lastTest>>

tableVars == <<editingId, editData>>

uiVars == <<indexVars, settingsVars, tableVars>>

extractVars ==
  <<text, pc, processedText, month, day, time, period, sys, dia, pulse,
    pulseLog, result, item>>

vars == <<extractVars, uiVars>>

-----------------------------------------------------------------------------
(* Characters and JavaScript values *)

Ch(s, i) == SubSeq(s, i, i)

Digits == {"0", "1", "2", "3", "4", "5", "6", "7", "8", "9"}

LowerStr == "abcdefghijklmnopqrstuvwxyz"

UpperStr == "ABCDEFGHIJKLMNOPQRSTUVWXYZ"

Lowers == {Ch(LowerStr, i) : i \in 1..Len(LowerStr)}

Uppers == {Ch(UpperStr, i) : i \in 1..Len(UpperStr)}

\* \w of the regular expressions
WordCh == Digits \cup Lowers \cup Uppers \cup {"_"}

\* \s of the regular expressions (the white space the inputs contain)
Space == {" ", "\t", "\n", "\r"}

LowerCh(c) ==
  IF c \in Uppers
    THEN Ch(LowerStr, CHOOSE i \in 1..Len(UpperStr) : Ch(UpperStr, i) = c)
    ELSE c

UpperCh(c) ==
  IF c \in Lowers
    THEN Ch(UpperStr, CHOOSE i \in 1..Len(LowerStr) : Ch(LowerStr, i) = c)
    ELSE c

RECURSIVE toLowerCase(_)
toLowerCase(s) ==
  IF s = "" THEN "" ELSE LowerCh(Head(s)) \o toLowerCase(Tail(s))

RECURSIVE toUpperCase(_)
toUpperCase(s) ==
  IF s = "" THEN "" ELSE UpperCh(Head(s)) \o toUpperCase(Tail(s))

\* The value of an index past the end of a match array.  No text the
\* extractors read contains "<": preprocessText strips it.
Undefined == "<undefined>"

\* Number(x) of something that is not a number.  Every number the program
\* reads is a run of digits, so a negative value stands for NaN.
NaN == 0 - 1

DigitVal(c) == CHOOSE n \in 0..9 : Ch("0123456789", n + 1) = c

AllDigits(s) == \A i \in 1..Len(s) : Ch(s, i) \in Digits

RECURSIVE DigitsToInt(_, _)
DigitsToInt(s, acc) ==
  IF s = "" THEN acc ELSE DigitsToInt(Tail(s), 10 * acc + DigitVal(Head(s)))

RECURSIVE trim(_)
trim(s) ==
  IF s = "" THEN ""
  ELSE IF Head(s) \in Space THEN trim(Tail(s))
  ELSE IF Ch(s, Len(s)) \in Space THEN trim(SubSeq(s, 1, Len(s) - 1))
  ELSE s

\* Number(s): white space trimmed, "" is 0, a run of digits its value,
\* anything else (undefined included) NaN.
Number(s) ==
  IF s = Undefined THEN NaN
  ELSE LET t == trim(s)
       IN  IF t = "" THEN 0
           ELSE IF AllDigits(t) THEN DigitsToInt(t, 0)
           ELSE NaN

RECURSIVE NatToString(_)
NatToString(n) ==
  IF n < 10 THEN Ch("0123456789", n + 1)
  ELSE NatToString(n \div 10) \o Ch("0123456789", (n % 10) + 1)

\* n.toString()
toString(n) == IF n = NaN THEN "NaN" ELSE NatToString(n)

\* s.padStart(2, '0')
padStart2(s) == IF Len(s) >= 2 THEN s ELSE IF Len(s) = 1 THEN "0" \o s ELSE "00"

\* !n of a number
Falsy(n) == n = 0 \/ n = NaN

\* lo <= n && n <= hi, false of NaN
InRange(n, lo, hi) == n # NaN /\ n >= lo /\ n <= hi

\* s.includes(sub)
Includes(s, sub) ==
  {i \in 1..(Len(s) - Len(sub) + 1) : SubSeq(s, i, i + Len(sub) - 1) = sub} # {}

\* s.indexOf(sub), 0-based, for a sub that s includes
IndexOf(s, sub) ==
  (CHOOSE i \in 1..(Len(s) - Len(sub) + 1) :
     /\ SubSeq(s, i, i + Len(sub) - 1) = sub
     /\ \A j \in 1..(i - 1) : SubSeq(s, j, j + Len(sub) - 1) # sub) - 1

Max(a, b) == IF a >= b THEN a ELSE b

Min(a, b) == IF a <= b THEN a ELSE b

\* s.substring(from, to), 0-based, to exclusive, both clamped
Substring(s, from, to) ==
  LET f == Min(Max(from, 0), Len(s))
      e == Min(Max(to, 0), Len(s))
  IN  SubSeq(s, Min(f, e) + 1, Max(f, e))

-----------------------------------------------------------------------------
(* Regular expressions *)

\* \b
B == [k |-> "b"]

\* (?:a|b|c): literal alternatives, tried in order
Alt(a) == [k |-> "alt", a |-> a, cap |-> FALSE]

\* (a|b|c)
CapAlt(a) == [k |-> "alt", a |-> a, cap |-> TRUE]

\* a literal
Lit(s) == Alt(<<s>>)

\* [c]{lo,hi}, greedy
Cls(c, lo, hi) == [k |-> "cls", c |-> c, lo |-> lo, hi |-> hi, cap |-> FALSE]

\* \d{lo,hi} and (\d{lo,hi})
D(lo, hi) == Cls(Digits, lo, hi)

CapD(lo, hi) == [k |-> "cls", c |-> Digits, lo |-> lo, hi |-> hi, cap |-> TRUE]

\* \s* and \s+: a greedy run of at least lo characters
Run(c, lo) == [k |-> "run", c |-> c, lo |-> lo, cap |-> FALSE]

Ws0 == Run(Space, 0)

Ws1 == Run(Space, 1)

\* /items/, /items/i, /items/g, /items/gi
Re(items) == [items |-> items, i |-> FALSE, g |-> FALSE]

ReI(items) == [items |-> items, i |-> TRUE, g |-> FALSE]

ReG(items) == [items |-> items, i |-> FALSE, g |-> TRUE]

ReGI(items) == [items |-> items, i |-> TRUE, g |-> TRUE]

Fail == <<>>

IsWordAt(t, p) == p >= 1 /\ p <= Len(t) /\ Ch(t, p) \in WordCh

\* \b before the character at p
AtBoundary(t, p) == IsWordAt(t, p - 1) # IsWordAt(t, p)

InClass(c, cls, ci) == c \in cls \/ (ci /\ LowerCh(c) \in cls)

\* the length of the run of class characters at p, at most hi
RECURSIVE RunLen(_, _, _, _, _)
RunLen(t, p, cls, hi, ci) ==
  IF hi = 0 \/ p > Len(t) \/ ~InClass(Ch(t, p), cls, ci) THEN 0
  ELSE 1 + RunLen(t, p + 1, cls, hi - 1, ci)

StartsWith(t, p, lit, ci) ==
  /\ p + Len(lit) - 1 <= Len(t)
  /\ LET s == SubSeq(t, p, p + Len(lit) - 1)
     IN  s = lit \/ (ci /\ toLowerCase(s) = lit)

RECURSIVE MatchItems(_, _, _, _, _)
RECURSIVE TryAlts(_, _, _, _, _, _)
RECURSIVE TryCounts(_, _, _, _, _, _)

\* The items from the k-th on matched at p: <<end, captures>> of the first
\* way to match in the engine's order, or Fail.
MatchItems(re, k, t, p, caps) ==
  IF k > Len(re.items) THEN <<p, caps>>
  ELSE LET it == re.items[k]
       IN  CASE it.k = "b" ->
                  IF AtBoundary(t, p) THEN MatchItems(re, k + 1, t, p, caps) ELSE Fail
             [] it.k = "alt" -> TryAlts(re, k, t, p, caps, 1)
             [] it.k = "cls" ->
                  TryCounts(re, k, t, p, caps, RunLen(t, p, it.c, it.hi, re.i))
             [] it.k = "run" ->
                  TryCounts(re, k, t, p, caps, RunLen(t, p, it.c, Len(t), re.i))

TryAlts(re, k, t, p, caps, j) ==
  LET it == re.items[k]
  IN  IF j > Len(it.a) THEN Fail
      ELSE IF ~StartsWith(t, p, it.a[j], re.i) THEN TryAlts(re, k, t, p, caps, j + 1)
      ELSE LET e == p + Len(it.a[j])
               Or(r) == IF r # Fail THEN r ELSE TryAlts(re, k, t, p, caps, j + 1)
           IN  Or(MatchItems(re, k + 1, t, e,
                             IF it.cap THEN Append(caps, SubSeq(t, p, e - 1)) ELSE caps))

TryCounts(re, k, t, p, caps, n) ==
  LET it == re.items[k]
  IN  IF n < it.lo THEN Fail
      ELSE LET Or(r) == IF r # Fail THEN r ELSE TryCounts(re, k, t, p, caps, n - 1)
           IN  Or(MatchItems(re, k + 1, t, p + n,
                             IF it.cap THEN Append(caps, SubSeq(t, p, p + n - 1)) ELSE caps))

NoMatch == [start |-> 0]

\* The leftmost match starting at from or later.
RECURSIVE Exec(_, _, _)
Exec(re, t, from) ==
  IF from > Len(t) + 1 THEN NoMatch
  ELSE LET Or(r) == IF r # Fail
                        THEN [start |-> from, end |-> r[1], caps |-> r[2],
                              str |-> SubSeq(t, from, r[1] - 1)]
                        ELSE Exec(re, t, from + 1)
       IN  Or(MatchItems(re, 1, t, from, <<>>))

\* Every match, left to right, without overlap (the g flag).
RECURSIVE ExecAll(_, _, _)
ExecAll(re, t, from) ==
  LET Then(m) ==
        IF m = NoMatch THEN <<>>
        ELSE <<m>> \o ExecAll(re, t, IF m.end > m.start THEN m.end ELSE m.end + 1)
  IN  Then(Exec(re, t, from))

Null == <<>>

\* t.match(re): null, or the array [match, groups...] without the g flag,
\* or the array of all the matched strings with it.
Match(t, re) ==
  LET All(ms) == [i \in 1..Len(ms) |-> ms[i].str]
      First(m) == IF m = NoMatch THEN Null ELSE <<m.str>> \o m.caps
  IN  IF re.g THEN All(ExecAll(re, t, 1)) ELSE First(Exec(re, t, 1))

\* m[i] of a match array
At(m, i) == IF i + 1 <= Len(m) THEN m[i + 1] ELSE Undefined

\* [...t.matchAll(re)].map(match => Number(match[1]))
MatchAllNumbers(t, re) ==
  LET Numbers(ms) == [i \in 1..Len(ms) |-> Number(At(<<ms[i].str>> \o ms[i].caps, 1))]
  IN  Numbers(ExecAll(re, t, 1))

RECURSIVE Expand(_, _)
Expand(tmpl, caps) ==
  IF tmpl = <<>> THEN ""
  ELSE (IF Head(tmpl) = "$1" THEN caps[1] ELSE Head(tmpl)) \o Expand(Tail(tmpl), caps)

\* t.replace(re, tmpl) with the g flag
RECURSIVE ReplaceFrom(_, _, _, _)
ReplaceFrom(t, re, tmpl, from) ==
  LET Then(m) ==
        IF m = NoMatch THEN SubSeq(t, from, Len(t))
        ELSE SubSeq(t, from, m.start - 1) \o Expand(tmpl, m.caps)
               \o (IF m.end > m.start
                     THEN ReplaceFrom(t, re, tmpl, m.end)
                     ELSE SubSeq(t, m.end, m.end) \o ReplaceFrom(t, re, tmpl, m.end + 1))
  IN  Then(Exec(re, t, from))

Replace(t, re, tmpl) == ReplaceFrom(t, re, tmpl, 1)

-----------------------------------------------------------------------------
(* preprocessText *)

\* [^\w\s\/\-\:\.]
IsSpecialChar(c) == c \notin (WordCh \cup Space \cup {"/", "-", ":", "."})

RECURSIVE StripSpecial(_)
StripSpecial(s) ==
  IF s = "" THEN ""
  ELSE (IF IsSpecialChar(Head(s)) THEN " " ELSE Head(s)) \o StripSpecial(Tail(s))

\* lines 73-87: the replacements after the two first, in order
replacements ==
  << [re |-> ReG(<<B, Lit("0"), CapD(1, 1), B>>), by |-> <<"$1">>],
     [re |-> ReGI(<<B, Lit("sys"), CapD(2, 3), B>>), by |-> <<"sys ", "$1">>],
     [re |-> ReGI(<<B, Lit("dia"), CapD(2, 3), B>>), by |-> <<"dia ", "$1">>],
     [re |-> ReGI(<<B, Lit("s"), CapD(2, 3), B>>), by |-> <<"s ", "$1">>],
     [re |-> ReGI(<<B, Lit("d"), CapD(2, 3), B>>), by |-> <<"d ", "$1">>],
     [re |-> ReGI(<<B, Lit("minig"), B>>), by |-> <<"mmhg">>],
     [re |-> ReG(<<B, Lit("1+"), B>>), by |-> <<>>],
     [re |-> ReG(<<B, Lit("+"), B>>), by |-> <<>>],
     [re |-> ReG(<<B, Lit("%"), B>>), by |-> <<>>],
     [re |-> ReGI(<<B, Lit("cm"), B>>), by |-> <<"7m">>],
     [re |-> ReGI(<<B, Lit("c1"), B>>), by |-> <<"7m">>],
     [re |-> ReGI(<<B, Lit("c9"), B>>), by |-> <<"7m">>],
     [re |-> ReGI(<<B, Lit("mid"), B>>), by |-> <<"7m">>] >>

RECURSIVE ReplaceEach(_, _)
ReplaceEach(t, i) ==
  IF t = "" \/ i > Len(replacements) THEN t
  ELSE ReplaceEach(Replace(t, replacements[i].re, replacements[i].by), i + 1)

\* lines 69-89
preprocessText(t) ==
  toLowerCase(ReplaceEach(StripSpecial(Replace(t, ReG(<<Ws1>>), <<" ">>)), 1))

-----------------------------------------------------------------------------
(* The pattern tables (patterns, lines 110-174) *)

MonthWords == Alt(<<"month", "mo", "m">>)

DayWords == Alt(<<"day", "d">>)

\* the pattern whose source includes 'cm|7m|mid'
MisreadMonthItem == Alt(<<"cm", "7m", "mid">>)

AmPm == CapAlt(<<"am", "pm">>)

SysWords == Alt(<<"systolic", "sys", "s">>)

DiaWords == Alt(<<"diastolic", "dia", "d">>)

BpWords == Alt(<<"bp", "blood pressure">>)

Sep == Cls({":", "-"}, 0, 1)

patterns ==
  [month |->
     << ReI(<<B, CapD(1, 2), Ws0, MonthWords, B>>),
        ReI(<<B, MonthWords, Ws0, CapD(1, 2), B>>),
        ReI(<<B, CapD(1, 2), Lit("m"), B>>),
        ReI(<<B, MisreadMonthItem, B>>),
        ReI(<<B, CapD(1, 2), Ws0, Lit("/"), Ws0, D(1, 2), B>>),
        ReI(<<B, CapD(1, 2), Ws0, Lit("-"), Ws0, D(1, 2), B>> ) >>,
   day |->
     << ReI(<<B, CapD(1, 2), Ws0, DayWords, B>>),
        ReI(<<B, DayWords, Ws0, CapD(1, 2), B>>),
        ReI(<<B, CapD(1, 2), Lit("d"), B>>),
        ReI(<<B, CapD(1, 2), Ws0, Lit("/"), Ws0, D(1, 2), B>>),
        ReI(<<B, CapD(1, 2), Ws0, Lit("-"), Ws0, D(1, 2), B>>) >>,
   time |->
     << ReI(<<B, CapD(1, 2), Lit(":"), CapD(2, 2), Ws0, AmPm, B>>),
        ReI(<<B, CapD(1, 2), Lit(":"), CapD(2, 2), B>>),
        ReI(<<B, CapD(1, 2), Ws0, AmPm, B>>),
        ReI(<<B, AmPm, Ws0, CapD(1, 2), Lit(":"), CapD(2, 2), B>>),
        ReI(<<B, CapD(1, 2), Lit("."), CapD(2, 2), Ws0, AmPm, B>>) >>,
   systolic |->
     << ReI(<<B, SysWords, Ws0, Sep, Ws0, CapD(2, 3), B>>),
        ReI(<<B, SysWords, CapD(2, 3), B>>),
        ReI(<<B, CapD(2, 3), Ws0, Lit("/"), Ws0, D(2, 3), B>>),
        ReI(<<B, CapD(2, 3), Ws0, SysWords, B>>),
        ReI(<<B, BpWords, Ws0, CapD(2, 3), Ws0, Lit("/"), Ws0, D(2, 3), B>>),
        ReI(<<B, Alt(<<"top", "upper">>), Ws0, CapD(2, 3), B>>) >>,
   diastolic |->
     << ReI(<<B, DiaWords, Ws0, Sep, Ws0, CapD(2, 3), B>>),
        ReI(<<B, DiaWords, CapD(2, 3), B>>),
        ReI(<<B, D(2, 3), Ws0, Lit("/"), Ws0, CapD(2, 3), B>>),
        ReI(<<B, CapD(2, 3), Ws0, DiaWords, B>>),
        ReI(<<B, BpWords, Ws0, D(2, 3), Ws0, Lit("/"), Ws0, CapD(2, 3), B>>),
        ReI(<<B, Alt(<<"bottom", "lower">>), Ws0, CapD(2, 3), B>>) >>,
   pulse |->
     << ReI(<<B, Alt(<<"pulse", "pul", "p">>), Ws0, Sep, Ws0, CapD(2, 3), Ws0,
              Alt(<<"bpm", "min", "/min">>), B>>),
        ReI(<<B, CapD(2, 3), Ws0, Alt(<<"bpm", "pulse", "pul", "p">>), B>>),
        ReI(<<B, Alt(<<"heart rate", "hr">>), Ws0, Sep, Ws0, CapD(2, 3), B>>),
        ReI(<<B, CapD(2, 3), Ws0, Alt(<<"bpm", "/min">>), B>>),
        ReI(<<B, Alt(<<"rate", "r">>), Ws0, CapD(2, 3), B>>) >>,
   period |->
     << ReI(<<B, AmPm, B>>),
        ReI(<<B, Alt(<<"morning", "am">>), B>>),
        ReI(<<B, Alt(<<"afternoon", "pm">>), B>>),
        ReI(<<B, Alt(<<"a.m.", "p.m.">>), B>>) >>]

\* m.map(Number)
Numbers(m) == [i \in 1..Len(m) |-> Number(m[i])]

\* processedText.match(/\b(\d{1,2})\b/g).map(Number), [] when there is none
OneTwoDigitNumbers(p) == Numbers(Match(p, ReG(<<B, CapD(1, 2), B>>)))

\* processedText.match(/\b\d{2,3}\b/g).map(Number)
TwoThreeDigitNumbers(p) == Numbers(Match(p, ReG(<<B, D(2, 3), B>>)))

\* processedText.match(/\b(\d{3})\b/g).map(Number)
ThreeDigitNumbers(p) == Numbers(Match(p, ReG(<<B, CapD(3, 3), B>>)))

RECURSIVE Filter(_, _, _)
\* xs.filter(n => lo <= n && n <= hi)
Filter(xs, lo, hi) ==
  IF xs = <<>> THEN <<>>
  ELSE (IF InRange(Head(xs), lo, hi) THEN <<Head(xs)>> ELSE <<>>) \o Filter(Tail(xs), lo, hi)

Elems(xs) == {xs[i] : i \in 1..Len(xs)}

RECURSIVE Without(_, _)
\* xs.filter(n => !ys.includes(n))
Without(xs, ys) ==
  IF xs = <<>> THEN <<>>
  ELSE (IF Head(xs) \in ys THEN <<>> ELSE <<Head(xs)>>) \o Without(Tail(xs), ys)

\* the hours and minutes of every \b\d{1,2}:\d{2}\b token
\* (time.split(':').map(Number), flattened)
TimeValues(p) ==
  LET Values(ms) == UNION {{Number(ms[i].caps[1]), Number(ms[i].caps[2])} : i \in 1..Len(ms)}
  IN  Values(ExecAll(ReG(<<B, CapD(1, 2), Lit(":"), CapD(2, 2), B>>), p, 1))

\* the comparator of the date sorts (lines 290-296): a month-like number
\* first, then ascending
MonthFirst(a, b) ==
  LET aIsMonth == a >= 1 /\ a <= 12
      bIsMonth == b >= 1 /\ b <= 12
  IN  IF aIsMonth /\ ~bIsMonth THEN 0 - 1
      ELSE IF ~aIsMonth /\ bIsMonth THEN 1
      ELSE a - b

Compare(how, a, b) ==
  CASE how = "monthFirst" -> MonthFirst(a, b)
    [] how = "descending" -> b - a
    [] how = "ascending" -> a - b

RECURSIVE Insert(_, _, _)
Insert(how, x, xs) ==
  IF xs = <<>> THEN <<x>>
  ELSE IF Compare(how, x, Head(xs)) < 0 THEN <<x>> \o xs
  ELSE <<Head(xs)>> \o Insert(how, x, Tail(xs))

RECURSIVE Sort(_, _)
\* xs.sort(comparator), stable
Sort(how, xs) ==
  IF xs = <<>> THEN <<>>
  ELSE Insert(how, xs[Len(xs)], Sort(how, SubSeq(xs, 1, Len(xs) - 1)))

-----------------------------------------------------------------------------
(* Month and day (lines 185-215) *)

RECURSIVE MonthLoopFrom(_, _, _)
MonthLoopFrom(p, i, m) ==
  IF i > Len(patterns.month) THEN m
  ELSE LET With(match) ==
             IF match = Null THEN MonthLoopFrom(p, i + 1, m)
             ELSE IF \E k \in 1..Len(patterns.month[i].items) :
                       patterns.month[i].items[k] = MisreadMonthItem
                    THEN 7
             ELSE LET v == Number(At(match, 1))
                  IN  IF InRange(v, 1, 12) THEN v ELSE MonthLoopFrom(p, i + 1, v)
       IN  With(Match(p, patterns.month[i]))

\* lines 185-203: the value of month after the loop
MonthLoop(p, m) == MonthLoopFrom(p, 1, m)

RECURSIVE DayLoopFrom(_, _, _)
DayLoopFrom(p, i, d) ==
  IF i > Len(patterns.day) THEN d
  ELSE LET With(match) ==
             IF match = Null THEN DayLoopFrom(p, i + 1, d)
             ELSE LET v == Number(At(match, 1))
                  IN  IF InRange(v, 1, 31) THEN v ELSE DayLoopFrom(p, i + 1, v)
       IN  With(Match(p, patterns.day[i]))

\* lines 205-215: the value of day after the loop
DayLoop(p, d) == DayLoopFrom(p, 1, d)

-----------------------------------------------------------------------------
(* Date recovery (lines 217-479); md is [month, day] *)

RECURSIVE DateTokens(_, _)
\* lines 222-238: the "Nm" and "Nd" tokens, in order
DateTokens(ms, md) ==
  IF ms = <<>> THEN md
  ELSE LET match == Head(ms)
           first == Exec(ReI(<<Cls({"m", "d"}, 1, 1)>>), match, 1)
           \* match.replace(/[md]/i, ''): the first m or d removed
           number == SubSeq(match, 1, first.start - 1)
                       \o SubSeq(match, first.end, Len(match))
           type == toLowerCase(Ch(match, Len(match)))
           value == Number(number)
       IN  DateTokens(Tail(ms),
             IF type = "m" /\ InRange(value, 1, 12) /\ Falsy(md.month)
               THEN [md EXCEPT !.month = value]
             ELSE IF type = "d" /\ InRange(value, 1, 31) /\ Falsy(md.day)
               THEN [md EXCEPT !.day = value]
             ELSE md)

combinedDatePatterns ==
  << ReGI(<<B, CapD(1, 2), Lit("m"), Ws0, CapD(1, 2), Lit("d"), B>>),
     ReGI(<<B, CapD(1, 2), Lit("m"), CapD(1, 2), Lit("d"), B>>),
     ReGI(<<B, CapD(1, 2), Ws0, Lit("/"), Ws0, CapD(1, 2), B>>),
     ReGI(<<B, CapD(1, 2), Lit("-"), CapD(1, 2), B>>),
     ReGI(<<B, CapD(1, 2), Ws1, CapD(1, 2), B>>) >>

RECURSIVE CombinedDate(_, _, _)
\* lines 241-270
CombinedDate(p, i, md) ==
  IF i > Len(combinedDatePatterns) THEN md
  ELSE LET With(match) ==
             LET first == Number(At(match, 1))
                 second == Number(At(match, 2))
             IN  IF match = Null THEN CombinedDate(p, i + 1, md)
                 ELSE IF InRange(first, 1, 12) /\ InRange(second, 1, 31)
                   THEN [month |-> IF Falsy(md.month) THEN first ELSE md.month,
                         day |-> IF Falsy(md.day) THEN second ELSE md.day]
                 ELSE IF InRange(second, 1, 12) /\ InRange(first, 1, 31)
                   THEN [month |-> IF Falsy(md.month) THEN second ELSE md.month,
                         day |-> IF Falsy(md.day) THEN first ELSE md.day]
                 ELSE CombinedDate(p, i + 1, md)
       IN  With(Match(p, combinedDatePatterns[i]))

\* lines 288-306 and 460-477: the two first numbers, month-like first
FromSorted(numbers, md) ==
  LET Take(sorted) ==
        [month |-> IF Falsy(md.month) /\ InRange(sorted[1], 1, 12)
                     THEN sorted[1] ELSE md.month,
         day |-> IF Falsy(md.day) /\ InRange(sorted[2], 1, 31)
                   THEN sorted[2] ELSE md.day]
  IN  IF Len(numbers) >= 2 THEN Take(Sort("monthFirst", numbers)) ELSE md

\* lines 273-307
NumberAnalysis(p, md) ==
  FromSorted(Without(Filter(OneTwoDigitNumbers(p), 1, 31), TimeValues(p)), md)

dateLikePatterns ==
  << ReGI(<<B, CapD(1, 2), Cls({"/", "-"}, 1, 1), CapD(1, 2), B>>),
     ReGI(<<B, CapD(1, 2), Ws1, CapD(1, 2), B>>) >>

RECURSIVE DateLike(_, _, _)
\* lines 310-331
DateLike(p, i, md) ==
  IF i > Len(dateLikePatterns) THEN md
  ELSE LET With(match) ==
             LET first == Number(At(match, 1))
                 second == Number(At(match, 2))
             IN  IF match = Null THEN DateLike(p, i + 1, md)
                 ELSE IF InRange(first, 1, 12) /\ InRange(second, 1, 31)
                   THEN [month |-> IF Falsy(md.month) THEN first ELSE md.month,
                         day |-> IF Falsy(md.day) THEN second ELSE md.day]
                 ELSE DateLike(p, i + 1, md)
       IN  With(Match(p, dateLikePatterns[i]))

monthMisreads == << <<"tm", 7>>, <<"t1", 7>>, <<"t2", 7>> >>

RECURSIVE MonthMisread(_, _, _)
\* lines 336-348
MonthMisread(p, i, m) ==
  IF i > Len(monthMisreads) THEN m
  ELSE IF Includes(p, monthMisreads[i][1]) /\ InRange(monthMisreads[i][2], 1, 12)
    THEN monthMisreads[i][2]
  ELSE MonthMisread(p, i + 1, m)

\* lines 351-368
FourDContext(p, m) ==
  IF Falsy(m) /\ Includes(p, "4d")
    THEN LET FirstOr7(potentialMonths) ==
               IF Len(potentialMonths) > 0 THEN potentialMonths[1] ELSE 7
         IN  FirstOr7(Filter(OneTwoDigitNumbers(p), 1, 12))
    ELSE m

combinedPatterns ==
  << ReI(<<CapD(1, 2), Lit("m"), CapD(1, 2), Lit("d")>>),
     ReI(<<CapD(1, 2), Lit("m"), Ws0, CapD(1, 2), Lit("d")>>),
     ReI(<<CapD(1, 2), Ws0, Lit("m"), Ws0, CapD(1, 2), Ws0, Lit("d")>>) >>

RECURSIVE CombinedMonthDay(_, _, _)
\* lines 371-394
CombinedMonthDay(p, i, md) ==
  IF i > Len(combinedPatterns) THEN md
  ELSE LET With(combinedMatch) ==
             LET monthValue == Number(At(combinedMatch, 1))
                 dayValue == Number(At(combinedMatch, 2))
                 next == [month |-> IF InRange(monthValue, 1, 12)
                                      THEN monthValue ELSE md.month,
                          day |-> IF InRange(dayValue, 1, 31) THEN dayValue ELSE md.day]
             IN  IF combinedMatch = Null THEN CombinedMonthDay(p, i + 1, md)
                 ELSE IF ~Falsy(next.month) /\ ~Falsy(next.day) THEN next
                 ELSE CombinedMonthDay(p, i + 1, next)
       IN  With(Match(p, combinedPatterns[i]))

\* lines 397-412
MonthDayProximity(p, md) ==
  LET With(monthDayMatch) ==
        LET monthValue == Number(At(monthDayMatch, 1))
            dayValue == Number(At(monthDayMatch, 2))
        IN  IF monthDayMatch = Null THEN md
            ELSE [month |-> IF Falsy(md.month) /\ InRange(monthValue, 1, 12)
                              THEN monthValue ELSE md.month,
                  day |-> IF Falsy(md.day) /\ InRange(dayValue, 1, 31)
                            THEN dayValue ELSE md.day]
  IN  With(Match(p, ReI(<<B, CapD(1, 2), Ws0, Lit("m"), Ws0, CapD(1, 2), Ws0, Lit("d"), B>>)))

ocrDateCorrections ==
  << <<"cm", 7>>, <<"c1", 7>>, <<"c9", 7>>, <<"mid", 7>>,
     <<"1d", 1>>, <<"9d", 9>>, <<"13d", 13>> >>

RECURSIVE OcrDateCorrection(_, _, _)
\* lines 429-439
OcrDateCorrection(p, i, md) ==
  IF i > Len(ocrDateCorrections) THEN md
  ELSE LET misread == ocrDateCorrections[i][1]
           value == ocrDateCorrections[i][2]
       IN  OcrDateCorrection(p, i + 1,
             IF ~Includes(p, misread) THEN md
             ELSE IF (Head(misread) = "c" \/ misread = "mid") /\ Falsy(md.month)
               THEN [md EXCEPT !.month = value]
             ELSE IF Ch(misread, Len(misread)) = "d" /\ Falsy(md.day)
               THEN [md EXCEPT !.day = value]
             ELSE md)

\* lines 334-441: the fifth pass, run when month is still unset
MonthCorrection(p, md) ==
  LET Misreads(a) == [a EXCEPT !.month = FourDContext(p, MonthMisread(p, 1, a.month))]
      Combined(a) == IF Falsy(a.month) /\ Falsy(a.day) THEN CombinedMonthDay(p, 1, a) ELSE a
      Proximity(b) == IF Falsy(b.month) \/ Falsy(b.day) THEN MonthDayProximity(p, b) ELSE b
      Corrections(c) ==
        IF Falsy(c.month) \/ Falsy(c.day) THEN OcrDateCorrection(p, 1, c) ELSE c
  IN  IF ~Falsy(md.month) THEN md
      ELSE Corrections(Proximity(Combined(Misreads(md))))

\* lines 444-478
FallbackAnalysis(p, md, s, d, pu) ==
  LET bpNumbers == {n \in {s, d, pu} : n > 0}
  IN  FromSorted(Without(Filter(OneTwoDigitNumbers(p), 1, 31),
                         TimeValues(p) \cup bpNumbers), md)

Unset(md) == Falsy(md.day) \/ Falsy(md.month)

\* lines 217-479: month and day after the recovery
DateRecovery(p, m, d, s, di, pu) ==
  LET dateMatches == Match(p, ReGI(<<B, CapD(1, 2), Cls({"m", "d"}, 1, 1), B>>))
      Pass2(md) == IF Unset(md) THEN CombinedDate(p, 1, md) ELSE md
      Pass3(md) == IF Unset(md) THEN NumberAnalysis(p, md) ELSE md
      Pass4(md) == IF Unset(md) THEN DateLike(p, 1, md) ELSE md
      Pass6(md) == IF Unset(md) THEN FallbackAnalysis(p, md, s, di, pu) ELSE md
      Recover(md) ==
        IF Unset(md)
          THEN Pass6(MonthCorrection(p, Pass4(Pass3(Pass2(DateTokens(dateMatches, md))))))
          ELSE md
  IN  Recover([month |-> m, day |-> d])

-----------------------------------------------------------------------------
(* Time (lines 481-548) *)

\* `${hour.toString().padStart(2, '0')}:${minute.toString().padStart(2, '0')}`
FormatTime(hour, minute) ==
  padStart2(toString(hour)) \o ":" \o padStart2(toString(minute))

\* x?.toUpperCase() || ""
UpperOrEmpty(x) == IF x = Undefined THEN "" ELSE toUpperCase(x)

RECURSIVE TimeLoopFrom(_, _, _)
TimeLoopFrom(p, i, tp) ==
  IF i > Len(patterns.time) THEN tp
  ELSE LET With(match) ==
             LET hour == Number(At(match, 1))
                 minute == Number(At(match, 2))
             IN  IF match = Null THEN TimeLoopFrom(p, i + 1, tp)
                 ELSE IF Len(match) >= 4
                   THEN [time |-> FormatTime(hour, minute),
                         period |-> UpperOrEmpty(toLowerCase(At(match, 3)))]
                 ELSE IF Len(match) >= 3
                   THEN [time |-> FormatTime(hour, minute), period |-> tp.period]
                 ELSE tp
       IN  With(Match(p, patterns.time[i]))

\* lines 481-501: time and period after the loop
TimeLoop(p, t, per) == TimeLoopFrom(p, 1, [time |-> t, period |-> per])

timeLikePatterns ==
  << ReGI(<<B, CapD(1, 2), Lit(":"), CapD(2, 2), B>>),
     ReGI(<<B, CapD(1, 2), Lit("."), CapD(2, 2), B>>),
     ReGI(<<B, CapD(1, 2), Ws1, CapD(2, 2), B>>),
     ReGI(<<B, CapD(1, 2), Lit("h"), CapD(2, 2), Lit("m"), B>>) >>

RECURSIVE TimeLike(_, _)
\* lines 504-528
TimeLike(p, i) ==
  IF i > Len(timeLikePatterns) THEN ""
  ELSE LET With(match) ==
             LET hour == Number(At(match, 1))
                 minute == Number(At(match, 2))
             IN  IF match # Null /\ InRange(hour, 0, 23) /\ InRange(minute, 0, 59)
                   THEN FormatTime(hour, minute)
                   ELSE TimeLike(p, i + 1)
       IN  With(Match(p, timeLikePatterns[i]))

RECURSIVE TimePair(_, _)
\* lines 535-547
TimePair(timeCandidates, i) ==
  IF i > Len(timeCandidates) - 1 THEN ""
  ELSE IF InRange(timeCandidates[i], 0, 23) /\ InRange(timeCandidates[i + 1], 0, 59)
    THEN FormatTime(timeCandidates[i], timeCandidates[i + 1])
  ELSE TimePair(timeCandidates, i + 1)

\* lines 503-548: time after the two fallbacks
TimeFallback(p, t) ==
  LET Pair(t1, timeCandidates) ==
        IF Len(timeCandidates) >= 2 THEN TimePair(timeCandidates, 1) ELSE t1
      Numeric(t1) == IF t1 = "" THEN Pair(t1, Filter(OneTwoDigitNumbers(p), 0, 23)) ELSE t1
  IN  Numeric(IF t = "" THEN TimeLike(p, 1) ELSE t)

-----------------------------------------------------------------------------
(* The label cascades of systolic, diastolic and pulse *)

RECURSIVE Cascade(_, _, _, _, _, _)
\* for (const pattern of ps) { match; value = Number(match[1]);
\*   if (lo <= value && value <= hi) { v = value; break; } }
Cascade(p, ps, i, lo, hi, v) ==
  IF i > Len(ps) THEN v
  ELSE LET With(match) ==
             LET value == Number(At(match, 1))
             IN  IF match # Null /\ InRange(value, lo, hi) THEN value
                 ELSE Cascade(p, ps, i + 1, lo, hi, v)
       IN  With(Match(p, ps[i]))

\* lines 550-561
SystolicLoop(p, s) == Cascade(p, patterns.systolic, 1, 70, 250, s)

\* the numbers \b(\d{2,3})\b of the ten characters before and after the
\* label at index (0-based) of width w
Nearby(p, index, w, width, re) ==
  MatchAllNumbers(Substring(p, Max(0, index - width), index), re)
    \o MatchAllNumbers(Substring(p, index + w, index + w + width), re)

sysPatterns ==
  << ReI(<<Lit("sys"), CapD(2, 3), B>>),
     ReI(<<Lit("sys"), Ws0, CapD(2, 3), B>>),
     ReI(<<Lit("sys:"), CapD(2, 3), B>>),
     ReI(<<Lit("sys"), Ws0, Lit(":"), Ws0, CapD(2, 3), B>>) >>

\* lines 568-609
SysLabelCorrection(p, s) ==
  LET FirstOr(potentialSystolic, s1) ==
        IF Len(potentialSystolic) > 0 THEN potentialSystolic[1] ELSE s1
      Window(s1) ==
        IF Falsy(s1) \/ s1 < 100
          THEN FirstOr(Filter(Nearby(p, IndexOf(p, "sys"), 3, 10,
                                     ReG(<<B, CapD(2, 3), B>>)), 100, 250), s1)
          ELSE s1
  IN  Window(Cascade(p, sysPatterns, 1, 100, 250, s))

\* lines 611-633
SysNumberCorrection(p, s) ==
  LET Largest(systolicCandidates, largeSystolic) ==
        IF Len(systolicCandidates) > 0
          THEN (IF Len(largeSystolic) > 0 THEN largeSystolic[1] ELSE systolicCandidates[1])
          ELSE s
  IN  Largest(Filter(TwoThreeDigitNumbers(p), 100, 250),
              Filter(ThreeDigitNumbers(p), 100, 250))

\* SystolicCorrection run whatever the cascade found
SystolicCorrectionAlways(p, s) ==
  SysNumberCorrection(p, IF Includes(p, "sys") THEN SysLabelCorrection(p, s) ELSE s)

\* lines 563-634: sys after the correction
SystolicCorrection(p, s) ==
  IF Falsy(s) \/ s < 100
    THEN SysNumberCorrection(p, IF Includes(p, "sys") THEN SysLabelCorrection(p, s) ELSE s)
    ELSE s

\* lines 636-647
DiastolicLoop(p, d) == Cascade(p, patterns.diastolic, 1, 40, 150, d)

diaPatterns ==
  << ReI(<<Lit("dia"), CapD(2, 3), B>>),
     ReI(<<Lit("dia"), Ws0, CapD(2, 3), B>>),
     ReI(<<Lit("dia:"), CapD(2, 3), B>>),
     ReI(<<Lit("dia"), Ws0, Lit(":"), Ws0, CapD(2, 3), B>>) >>

\* lines 654-709
DiaLabelCorrection(p, d) ==
  LET Percentage(d2, percentageMatch) ==
        LET value == Number(At(percentageMatch, 1))
        IN  IF percentageMatch # Null /\ InRange(value, 40, 150) THEN value ELSE d2
      OrPercentage(d2) ==
        IF Falsy(d2) \/ d2 < 40
          THEN Percentage(d2, Match(p, ReI(<<B, CapD(2, 3), Ws0, Lit("%"), B>>)))
          ELSE d2
      FirstOr(potentialDiastolic, d1) ==
        OrPercentage(IF Len(potentialDiastolic) > 0 THEN potentialDiastolic[1] ELSE d1)
      Window(d1) ==
        IF Falsy(d1) \/ d1 < 40
          THEN FirstOr(Filter(Nearby(p, IndexOf(p, "dia"), 3, 10,
                                     ReG(<<B, CapD(2, 3), B>>)), 40, 150), d1)
          ELSE d1
  IN  Window(Cascade(p, diaPatterns, 1, 40, 150, d))

\* lines 649-710: dia after the correction
DiastolicCorrection(p, d) ==
  IF (Falsy(d) \/ d < 40) /\ Includes(p, "dia") THEN DiaLabelCorrection(p, d) ELSE d

-----------------------------------------------------------------------------
(* Pulse (lines 712-816); the result is [pulse, log], log the console      *)
(* message of the assignment                                               *)

RECURSIVE PulseLoopFrom(_, _, _, _)
PulseLoopFrom(p, i, pu, log) ==
  IF i > Len(patterns.pulse) THEN [pulse |-> pu, log |-> log]
  ELSE LET With(match) ==
             LET value == Number(At(match, 1))
             IN  IF match # Null /\ InRange(value, 40, 200)
                   THEN [pulse |-> value, log |-> "Found pulse"]
                   ELSE PulseLoopFrom(p, i + 1, pu, log)
       IN  With(Match(p, patterns.pulse[i]))

\* lines 712-723
PulseLoop(p, pu, log) == PulseLoopFrom(p, 1, pu, log)

ocrMisreads == << <<"coc", 71>>, <<"c0c", 70>>, <<"c1c", 71>> >>

RECURSIVE OcrMisread(_, _)
\* lines 735-741
OcrMisread(p, i) ==
  IF i > Len(ocrMisreads) THEN 0
  ELSE IF Includes(p, ocrMisreads[i][1]) /\ InRange(ocrMisreads[i][2], 40, 200)
    THEN ocrMisreads[i][2]
  ELSE OcrMisread(p, i + 1)

\* [sys, dia].filter(n => n > 0)
BpNumbers(s, d) == {n \in {s, d} : n > 0}

\* lines 746-765: the two-digit numbers around "coc"
NearCoc(p, s, d) ==
  LET Choose(potentialPulse, pulseCandidates) ==
        IF Len(pulseCandidates) > 0
          THEN [pulse |-> pulseCandidates[1], log |-> "Found pulse from OCR correction"]
        ELSE IF Len(potentialPulse) > 0
          THEN [pulse |-> potentialPulse[1],
                log |-> "Found pulse from OCR correction (may be BP value)"]
        ELSE [pulse |-> 0, log |-> ""]
      From(potentialPulse) ==
        Choose(potentialPulse, Without(potentialPulse, BpNumbers(s, d)))
  IN  From(Filter(Nearby(p, IndexOf(p, "coc"), 3, 10, ReG(<<B, CapD(2, 2), B>>)), 40, 200))

\* lines 770-789: the third number of the layout
Positional(p, s, d) ==
  LET Third(standaloneNumbers) ==
        IF Len(standaloneNumbers) >= 3
             /\ standaloneNumbers[3] # s /\ standaloneNumbers[3] # d
             /\ InRange(standaloneNumbers[3], 40, 200)
          THEN [pulse |-> standaloneNumbers[3],
                log |-> "Found pulse from positional analysis"]
          ELSE [pulse |-> 0, log |-> ""]
  IN  Third(Without(Filter(TwoThreeDigitNumbers(p), 40, 200), TimeValues(p)))

\* lines 793-812: the two-digit numbers around the pulse label
PulseLabelArea(p, s, d) ==
  LET First(pulseCandidates) ==
        IF Len(pulseCandidates) > 0
          THEN [pulse |-> pulseCandidates[1], log |-> "Found pulse from pulse label area"]
          ELSE [pulse |-> 0, log |-> ""]
  IN  First(Without(Filter(Nearby(p, IndexOf(p, "pulse"), 5, 20,
                                  ReG(<<B, CapD(2, 2), B>>)), 40, 200),
                    BpNumbers(s, d)))

\* lines 744-815: the search run when the table gave nothing
PulseSearch(p, s, d) ==
  LET layout == Includes(p, "sys") /\ Includes(p, "dia") /\ Includes(p, "pulse")
      OrLabelArea(b) == IF Falsy(b.pulse) THEN PulseLabelArea(p, s, d) ELSE b
      OrPositional(a) ==
        IF Falsy(a.pulse) /\ layout THEN OrLabelArea(Positional(p, s, d)) ELSE a
  IN  OrPositional(NearCoc(p, s, d))

\* lines 725-816: pulse after the "coc" correction
PulseCorrection(p, s, d, pu, log) ==
  IF Falsy(pu) /\ Includes(p, "coc")
    THEN LET OrKeep(r) == IF Falsy(r.pulse) THEN [pulse |-> pu, log |-> log] ELSE r
             OrSearch(v) ==
               IF ~Falsy(v)
                 THEN [pulse |-> v, log |-> "Found pulse from OCR misread correction"]
                 ELSE OrKeep(PulseSearch(p, s, d))
         IN  OrSearch(OcrMisread(p, 1))
    ELSE [pulse |-> pu, log |-> log]

-----------------------------------------------------------------------------
(* Period (lines 818-826) *)

RECURSIVE PeriodLoopFrom(_, _, _)
PeriodLoopFrom(p, i, per) ==
  IF i > Len(patterns.period) THEN per
  ELSE LET With(match) ==
             IF match = Null THEN PeriodLoopFrom(p, i + 1, per)
             ELSE UpperOrEmpty(At(match, 1))
       IN  With(Match(p, patterns.period[i]))

PeriodLoop(p, per) == PeriodLoopFrom(p, 1, per)

-----------------------------------------------------------------------------
(* The layout of the display and the fallback (lines 828-903) *)

\* lines 830, 769
IsLcdLayout(p) == Includes(p, "sys") /\ Includes(p, "dia") /\ Includes(p, "pulse")

\* lines 835-845
StandaloneNumbers(p) ==
  Without(Filter(TwoThreeDigitNumbers(p), 40, 250), TimeValues(p))

\* LcdLayout filling only the fields the cascades left empty
LcdLayoutSparing(p, s, d, pu, log) ==
  LET ByPosition(standaloneNumbers) ==
        IF Len(standaloneNumbers) >= 2
          THEN [sys |-> IF Falsy(s) THEN standaloneNumbers[1] ELSE s,
                dia |-> IF Falsy(d) THEN standaloneNumbers[2] ELSE d,
                pulse |-> IF Len(standaloneNumbers) >= 3 /\ Falsy(pu)
                            THEN standaloneNumbers[3] ELSE pu,
                log |-> "LCD positional extraction"]
          ELSE [sys |-> s, dia |-> d, pulse |-> pu, log |-> log]
  IN  ByPosition(StandaloneNumbers(p))

\* lines 849-860: sys, dia and pulse overridden by position
LcdLayout(p, s, d, pu, log) ==
  LET ByPosition(standaloneNumbers) ==
        IF Len(standaloneNumbers) >= 2
          THEN [sys |-> standaloneNumbers[1],
                dia |-> standaloneNumbers[2],
                pulse |-> IF Len(standaloneNumbers) >= 3 THEN standaloneNumbers[3] ELSE pu,
                log |-> "LCD positional extraction"]
          ELSE [sys |-> s, dia |-> d, pulse |-> pu, log |-> log]
  IN  ByPosition(StandaloneNumbers(p))

RECURSIVE Find(_, _)
\* xs.find(n => n !== x), undefined as 0 (both are falsy)
Find(xs, x) ==
  IF xs = <<>> THEN 0 ELSE IF Head(xs) # x THEN Head(xs) ELSE Find(Tail(xs), x)

\* lines 864-885: sys and dia from the two largest numbers
BpFallback(p, s, d) ==
  LET Largest(bpNumbers) ==
        LET s1 == IF Falsy(s) THEN bpNumbers[1] ELSE s
            secondLargest == Find(bpNumbers, s1)
        IN  IF Len(bpNumbers) >= 2
              THEN [sys |-> s1,
                    dia |-> IF Falsy(d) /\ ~Falsy(secondLargest) THEN secondLargest ELSE d]
              ELSE [sys |-> s, dia |-> d]
  IN  IF Falsy(s) \/ Falsy(d)
        THEN Largest(Sort("descending", Filter(TwoThreeDigitNumbers(p), 70, 250)))
        ELSE [sys |-> s, dia |-> d]

\* PulseFallback without the exclusion of the sys and dia numbers
PulseFallbackAny(p, s, d, pu, log) ==
  LET Smallest(pulseCandidates) ==
        IF Len(pulseCandidates) > 0
          THEN [pulse |-> pulseCandidates[1], log |-> "Fallback: Found pulse"]
          ELSE [pulse |-> pu, log |-> log]
  IN  IF Falsy(pu)
        THEN Smallest(Sort("ascending", Filter(TwoThreeDigitNumbers(p), 40, 200)))
        ELSE [pulse |-> pu, log |-> log]

\* lines 888-902: pulse from the smallest number not used for sys or dia
PulseFallback(p, s, d, pu, log) ==
  LET Smallest(pulseCandidates) ==
        IF Len(pulseCandidates) > 0
          THEN [pulse |-> pulseCandidates[1], log |-> "Fallback: Found pulse"]
          ELSE [pulse |-> pu, log |-> log]
  IN  IF Falsy(pu)
        THEN Smallest(Sort("ascending",
                           Without(Filter(TwoThreeDigitNumbers(p), 40, 200),
                                   BpNumbers(s, d))))
        ELSE [pulse |-> pu, log |-> log]

\* lines 861-903
SoftFallback(p, s, d, pu, log) ==
  LET Both(bp, pl) == [sys |-> bp.sys, dia |-> bp.dia, pulse |-> pl.pulse, log |-> pl.log]
      ThenPulse(bp) == Both(bp, PulseFallback(p, bp.sys, bp.dia, pu, log))
  IN  ThenPulse(BpFallback(p, s, d))

-----------------------------------------------------------------------------
(* The result (lines 905-917) *)

\* Keep without its range check
KeepAnyNumber(n, lo, hi) == n

\* x >= lo && x <= hi ? x : 0
Keep(n, lo, hi) == IF InRange(n, lo, hi) THEN n ELSE 0

\* Validate with the last field of the record left out
ValidateWithoutPulse(d, m, t, per, s, di, pu) ==
  [day |-> Keep(d, 1, 31),
   month |-> Keep(m, 1, 12),
   time |-> t,
   period |-> per,
   sys |-> Keep(s, 70, 250),
   dia |-> Keep(di, 40, 150)]

\* lines 906-914: the record returned
Validate(d, m, t, per, s, di, pu) ==
  [day |-> Keep(d, 1, 31),
   month |-> Keep(m, 1, 12),
   time |-> t,
   period |-> per,
   sys |-> Keep(s, 70, 250),
   dia |-> Keep(di, 40, 150),
   pulse |-> Keep(pu, 40, 200)]

-----------------------------------------------------------------------------
(* The inputs *)

MaxPhrases == 3

RECURSIVE Join(_)
Join(ws) ==
  IF ws = <<>> THEN ""
  ELSE IF Len(ws) = 1 THEN ws[1]
  ELSE ws[1] \o " " \o Join(Tail(ws))

\* the texts of at most MaxPhrases phrases of a vocabulary
Texts(vocabulary) ==
  {Join(ws) : ws \in UNION {[1..n -> vocabulary] : n \in 0..MaxPhrases}}

\* the three labels, readings in and out of range, a month out of range,
\* an hour with its period, an ordinary word
Vocabulary == {"sys dia pulse", "45", "144", "85,", "13m", "7 am", "coconut"}

\* Displays: each label with or without its reading, then or before some
\* more numbers and a time
LayoutTexts ==
  {Join(order) :
     order \in UNION {{<<s, d, p, e>>, <<e, p, s, d>>} :
                        s \in {"sys", "sys 144", "sys 45"},
                        d \in {"dia", "dia 72"},
                        p \in {"pulse", "pulse 76", "pul 76"},
                        e \in {"", "120", "9:51", "9:51 51", "120 80 60"}}}

\* A systolic label with its number L and a number U away from the label
LabelShapes ==
  {<<"sys ", " and ", "">>, <<"sys: ", " then ", "">>, <<"systolic ", " x ", "">>,
   <<"s ", " and ", "">>, <<"dia pulse sys ", " and ", "">>}

LabelledNumbers == {"70", "85", "99", "100", "120", "250"}

UnlabelledNumbers == {"72", "95", "140", "250"}

LabelFirst(shape, l, u) == shape[1] \o l \o shape[2] \o u \o shape[3]

LabelLast(shape, l, u) == u \o shape[2] \o shape[1] \o l \o shape[3]

LabelTexts ==
  UNION {{LabelFirst(shape, l, u), LabelLast(shape, l, u)} :
           shape \in LabelShapes, l \in LabelledNumbers, u \in UnlabelledNumbers}

\* "<M>m <D>d <H>:<MM> pm sys <S> dia <I> pulse <P>"
DateText(m, d, h, mm, s, i, p) ==
  m \o "m " \o d \o "d " \o h \o ":" \o mm \o " pm sys " \o s \o " dia " \o i
    \o " pulse " \o p

Months == {"7", "12"}

Days == {"15", "31"}

Hours == {"9", "12"}

Minutes == {"05", "30", "45"}

Systolics == {"130"}

Diastolics == {"85"}

Pulses == {"70"}

DateTexts ==
  {DateText(m, d, h, mm, s, i, p) :
     m \in Months, d \in Days, h \in Hours, mm \in Minutes,
     s \in Systolics, i \in Diastolics, p \in Pulses}

\* texts with a pulse label followed by a number: an optional number before
\* the label, the label, the number, an optional unit
PulseLabels == {"pulse", "pul", "p"}

PulseNumbers == {"40", "76", "200"}

PulseUnits == {"", " bpm", " min"}

NumbersBefore == {"", "120 ", "30 "}

PulseText(before, label, n, unit) == before \o label \o " " \o n \o unit

PulseTexts ==
  {PulseText(before, label, n, unit) :
     before \in NumbersBefore, label \in PulseLabels, n \in PulseNumbers,
     unit \in PulseUnits}

\* texts whose only date signal is one token "N/D" or "N-D"
DateSeparators == {"/", "-"}

SeparatorText(n, sep, d) == "date " \o n \o sep \o d

SeparatorTexts ==
  {SeparatorText(n, sep, d) : n \in Months, sep \in DateSeparators, d \in Days}

\* texts with a number in the window after "sys" that the systolic patterns
\* do not reach, alone or with a 3-digit number far before the label
FarNumbers == {"", "150 measured today "}

WindowNumbers == {"144", "120"}

SysWindowText(far, w) == far \o "sys is " \o w

SysWindowTexts == {SysWindowText(far, w) : far \in FarNumbers, w \in WindowNumbers}

\* texts of two numbers and no label
PairNumbers == {"85", "130", "140"}

PairText(a, b) == a \o " " \o b

PairTexts ==
  {PairText(ab[1], ab[2]) : ab \in {x \in PairNumbers \X PairNumbers : x[1] # x[2]}}

\* texts with the label "dia", no number in the ten characters around it
\* and one number farther in the text
FarDiastolics == {"85", "60"}

DiaFarText(n) == "dia not shown today " \o n

DiaFarTexts == {DiaFarText(n) : n \in FarDiastolics}

\* texts that hold one garbled token of the pulse table and no number
MisreadText(misread) == "pulse " \o misread

MisreadTexts == {MisreadText(ocrMisreads[i][1]) : i \in 1..Len(ocrMisreads)}

\* texts whose only period signal is one word, with the period it stands for
PeriodWords ==
  << <<"am", "AM">>, <<"pm", "PM">>, <<"morning", "AM">>, <<"afternoon", "PM">>,
     <<"a.m.", "AM">>, <<"p.m.", "PM">> >>

PeriodText(word) == "taken " \o word

PeriodTexts == {PeriodText(PeriodWords[i][1]) : i \in 1..Len(PeriodWords)}

\* texts whose only time signal is one token "N.MM", "N MM" or "NhMMm"
TimeForms == {<<".", "">>, <<" ", "">>, <<"h", "m">>}

TimeTokenText(form, n, mm) == "taken " \o n \o form[1] \o mm \o form[2]

TimeTokenTexts ==
  {TimeTokenText(form, n, mm) : form \in TimeForms, n \in Hours, mm \in Minutes}

\* texts with one combined token "NmMd", alone or followed by two other
\* numbers
OtherNumbers == {"", " 3 20"}

CombinedText(n, m, others) == n \o "m" \o m \o "d" \o others

CombinedTexts ==
  {CombinedText(n, m, others) : n \in Months, m \in Days, others \in OtherNumbers}

\* texts with the day token "4d" and one time token, whose hour and minute
\* are the only other numbers
DayTimeText(h, mm) == "4d " \o h \o ":" \o mm

DayTimeTexts == {DayTimeText(h, mm) : h \in Hours, mm \in Minutes}

\* texts with a day token and nothing else
LoneDays == {"14", "20", "24"}

DayOnlyText(d) == "taken " \o d \o "d"

DayOnlyTexts == {DayOnlyText(d) : d \in LoneDays}

-----------------------------------------------------------------------------
(* The extraction, step by step *)

NoResult == <<>>

\* no row of the table yet
NoItem == <<>>

\* invocations of handleImageUpload in one run
MaxUploads == 2

\* image files handed to one invocation
MaxFiles == 2

Uploads == 1..MaxUploads

\* an invocation that has not been made yet
IdleUpload == [files |-> <<>>, i |-> 0, newData |-> <<>>, at |-> "idle"]

\* Index.tsx lines 27-34: the useState defaults of the page
IndexInit ==
  /\ data = <<>>
  /\ processing = FALSE
  /\ processingItems = <<>>
  /\ currentProcessingIndex = 0
  /\ showProcessingModal = FALSE
  /\ toast = ""
  /\ uploads = [b \in Uploads |-> IdleUpload]
  /\ cancelled = {}

\* AISettings.tsx lines 12-19: the useState defaults of the form (lines 22-28
\* load the saved settings, here the defaults, and leave keyStatus 'unknown')
SettingsInit ==
  /\ settings =
       [provider |-> "gemini", apiKey |-> "", model |-> "gemini-1.5-flash"]
  /\ isTestingKey = FALSE
  /\ keyStatus = "unknown"
  /\ testing = <<>>
  /\ lastTest = Null

\* DataTable.tsx lines 20-21: the useState defaults of the table
TableInit ==
  /\ editingId = Null
  /\ editData = Null

\* lines 64-65 and 176-183: the call and the declarations
Start(inputs) ==
  /\ text \in inputs
  /\ pc = "preprocess"
  /\ processedText = ""
  /\ month = 0
  /\ day = 0
  /\ time = ""
  /\ period = ""
  /\ sys = 0
  /\ dia = 0
  /\ pulse = 0
  /\ pulseLog = ""
  /\ result = NoResult
  /\ item = NoItem
  /\ IndexInit
  /\ SettingsInit
  /\ TableInit

Init == Start(Texts(Vocabulary))

\* line 91
Preprocess ==
  /\ pc = "preprocess"
  /\ processedText' = preprocessText(text)
  /\ pc' = "month"
  /\ UNCHANGED <<text, month, day, time, period, sys, dia, pulse, pulseLog,
                 result, item>>
  /\ UNCHANGED uiVars

\* lines 185-203
ExtractMonth ==
  /\ pc = "month"
  /\ month' = MonthLoop(processedText, month)
  /\ pc' = "day"
  /\ UNCHANGED <<text, processedText, day, time, period, sys, dia, pulse,
                 pulseLog, result, item>>
  /\ UNCHANGED uiVars

\* lines 205-215
ExtractDay ==
  /\ pc = "day"
  /\ day' = DayLoop(processedText, day)
  /\ pc' = "date"
  /\ UNCHANGED <<text, processedText, month, time, period, sys, dia, pulse,
                 pulseLog, result, item>>
  /\ UNCHANGED uiVars

\* lines 217-479
RecoverDate ==
  /\ pc = "date"
  /\ LET Assign(md) == month' = md.month /\ day' = md.day
     IN  Assign(DateRecovery(processedText, month, day, sys, dia, pulse))
  /\ pc' = "time"
  /\ UNCHANGED <<text, processedText, time, period, sys, dia, pulse,
                 pulseLog, result, item>>
  /\ UNCHANGED uiVars

\* lines 481-501
ExtractTime ==
  /\ pc = "time"
  /\ LET Assign(tp) == time' = tp.time /\ period' = tp.period
     IN  Assign(TimeLoop(processedText, time, period))
  /\ pc' = "timeFallback"
  /\ UNCHANGED <<text, processedText, month, day, sys, dia, pulse, pulseLog,
                 result, item>>
  /\ UNCHANGED uiVars

\* lines 503-548
FallbackTime ==
  /\ pc = "timeFallback"
  /\ time' = TimeFallback(processedText, time)
  /\ pc' = "systolic"
  /\ UNCHANGED <<text, processedText, month, day, period, sys, dia, pulse,
                 pulseLog, result, item>>
  /\ UNCHANGED uiVars

\* lines 550-561
ExtractSystolic ==
  /\ pc = "systolic"
  /\ sys' = SystolicLoop(processedText, sys)
  /\ pc' = "systolicCorrection"
  /\ UNCHANGED <<text, processedText, month, day, time, period, dia, pulse,
                 pulseLog, result, item>>
  /\ UNCHANGED uiVars

\* lines 563-634
CorrectSystolic ==
  /\ pc = "systolicCorrection"
  /\ sys' = SystolicCorrection(processedText, sys)
  /\ pc' = "diastolic"
  /\ UNCHANGED <<text, processedText, month, day, time, period, dia, pulse,
                 pulseLog, result, item>>
  /\ UNCHANGED uiVars

\* lines 636-647
ExtractDiastolic ==
  /\ pc = "diastolic"
  /\ dia' = DiastolicLoop(processedText, dia)
  /\ pc' = "diastolicCorrection"
  /\ UNCHANGED <<text, processedText, month, day, time, period, sys, pulse,
                 pulseLog, result, item>>
  /\ UNCHANGED uiVars

\* lines 649-710
CorrectDiastolic ==
  /\ pc = "diastolicCorrection"
  /\ dia' = DiastolicCorrection(processedText, dia)
  /\ pc' = "pulse"
  /\ UNCHANGED <<text, processedText, month, day, time, period, sys, pulse,
                 pulseLog, result, item>>
  /\ UNCHANGED uiVars

\* lines 712-723
ExtractPulse ==
  /\ pc = "pulse"
  /\ LET Assign(pl) == pulse' = pl.pulse /\ pulseLog' = pl.log
     IN  Assign(PulseLoop(processedText, pulse, pulseLog))
  /\ pc' = "pulseCorrection"
  /\ UNCHANGED <<text, processedText, month, day, time, period, sys, dia,
                 result, item>>
  /\ UNCHANGED uiVars

\* lines 725-816
CorrectPulse ==
  /\ pc = "pulseCorrection"
  /\ LET Assign(pl) == pulse' = pl.pulse /\ pulseLog' = pl.log
     IN  Assign(PulseCorrection(processedText, sys, dia, pulse, pulseLog))
  /\ pc' = "period"
  /\ UNCHANGED <<text, processedText, month, day, time, period, sys, dia,
                 result, item>>
  /\ UNCHANGED uiVars

\* lines 818-826
ExtractPeriod ==
  /\ pc = "period"
  /\ period' = PeriodLoop(processedText, period)
  /\ pc' = "layout"
  /\ UNCHANGED <<text, processedText, month, day, time, sys, dia, pulse,
                 pulseLog, result, item>>
  /\ UNCHANGED uiVars

\* lines 830-860: the branch of the display layout
OverrideLayout ==
  /\ pc = "layout"
  /\ IsLcdLayout(processedText)
  /\ LET Assign(f) == sys' = f.sys /\ dia' = f.dia /\ pulse' = f.pulse /\ pulseLog' = f.log
     IN  Assign(LcdLayout(processedText, sys, dia, pulse, pulseLog))
  /\ pc' = "validate"
  /\ UNCHANGED <<text, processedText, month, day, time, period, result, item>>
  /\ UNCHANGED uiVars

\* lines 861-903: the other branch
FallBack ==
  /\ pc = "layout"
  /\ ~IsLcdLayout(processedText)
  /\ LET Assign(f) == sys' = f.sys /\ dia' = f.dia /\ pulse' = f.pulse /\ pulseLog' = f.log
     IN  Assign(SoftFallback(processedText, sys, dia, pulse, pulseLog))
  /\ pc' = "validate"
  /\ UNCHANGED <<text, processedText, month, day, time, period, result, item>>
  /\ UNCHANGED uiVars

\* lines 905-917
ValidateResult ==
  /\ pc = "validate"
  /\ result' = Validate(day, month, time, period, sys, dia, pulse)
  /\ pc' = "done"
  /\ UNCHANGED <<text, processedText, month, day, time, period, sys, dia, pulse,
                 pulseLog, item>>
  /\ UNCHANGED uiVars

Next ==
  \/ Preprocess
  \/ ExtractMonth
  \/ ExtractDay
  \/ RecoverDate
  \/ ExtractTime
  \/ FallbackTime
  \/ ExtractSystolic
  \/ CorrectSystolic
  \/ ExtractDiastolic
  \/ CorrectDiastolic
  \/ ExtractPulse
  \/ CorrectPulse
  \/ ExtractPeriod
  \/ OverrideLayout
  \/ FallBack
  \/ ValidateResult

Spec == Init /\ [][Next]_vars

\* the texts of the shapes the claims about labels, layout and date name
ShapeTexts ==
  LayoutTexts \cup LabelTexts \cup DateTexts \cup PulseTexts
    \cup SeparatorTexts \cup SysWindowTexts \cup PairTexts \cup DiaFarTexts
    \cup MisreadTexts \cup PeriodTexts \cup TimeTokenTexts
    \cup CombinedTexts \cup DayTimeTexts \cup DayOnlyTexts

InitShapes == Start(ShapeTexts)

SpecShapes == InitShapes /\ [][Next]_vars

-----------------------------------------------------------------------------
(* The upload handler and the table (Index.tsx, DataTable.tsx) *)

\* Index.tsx lines 98-103: the row pushed when processImageWithAIDirect
\* returned a record ({ ...extractedData, processed: true })
ExtractedItem(extractedData) ==
  [day |-> extractedData.day, month |-> extractedData.month,
   time |-> extractedData.time, period |-> extractedData.period,
   sys |-> extractedData.sys, dia |-> extractedData.dia,
   pulse |-> extractedData.pulse, processed |-> TRUE]

\* Index.tsx lines 124-135: the row pushed when the call threw
FailedItem ==
  [day |-> 0, month |-> 0, time |-> "", period |-> "", sys |-> 0, dia |-> 0,
   pulse |-> 0, processed |-> FALSE]

\* DataTable.tsx lines 238-243: the badge of the Status cell
ManualEntryBadge(row) == ~row.processed

\* Index.tsx lines 77-103: the call returned the record of the text
StoreExtracted ==
  /\ pc = "done"
  /\ item' = ExtractedItem(result)
  /\ pc' = "stored"
  /\ UNCHANGED <<text, processedText, month, day, time, period, sys, dia, pulse,
                 pulseLog, result>>
  /\ UNCHANGED uiVars

\* Index.tsx lines 105-135: the request failed before the text was parsed
\* (aiService.ts lines 994-997 throw, lines 1011-1014 rethrow)
StoreFailed ==
  /\ pc = "preprocess"
  /\ item' = FailedItem
  /\ pc' = "stored"
  /\ UNCHANGED <<text, processedText, month, day, time, period, sys, dia, pulse,
                 pulseLog, result>>
  /\ UNCHANGED uiVars

NextUpload ==
  \/ Next
  \/ StoreExtracted
  \/ StoreFailed

SpecUpload == Init /\ [][NextUpload]_vars

-----------------------------------------------------------------------------
(* The upload batch (Index.tsx, ImageUpload.tsx) *)

\* ImageUpload.tsx lines 35-51: the image files handed to onUpload, never an
\* empty list (line 45); a file is a number, and the lists are <<1>>,
\* <<2, 1>>, ... so that a file differs from its position
FileLists == {[k \in 1..n |-> n + 1 - k] : n \in 1..MaxFiles}

\* aiService.ts lines 1007-1010: records processImageWithAIDirect returns
OcrRecords ==
  {[day |-> 15, month |-> 7, time |-> "09:30", period |-> "AM", sys |-> 120,
    dia |-> 80, pulse |-> 72],
   [day |-> 0, month |-> 0, time |-> "", period |-> "", sys |-> 0, dia |-> 0,
    pulse |-> 0]}

\* Index.tsx lines 98-103 and 124-135: the row of a file; crypto.randomUUID()
\* is the pair of the invocation and the position, the object URL is the file
Row(id, imageUrl, fields) == [id |-> id, imageUrl |-> imageUrl] @@ fields

\* Index.tsx lines 42-49: the processing items of the files
QueuedItems(b, files) ==
  [k \in DOMAIN files |->
     [id |-> <<b, k>>, fileName |-> files[k], status |-> "queued"]]

\* Index.tsx lines 63-69, 88-99 and 110-122: prev.map(item => item.id ===
\* itemId ? { ...item, status } : item)
SetStatus(prev, itemId, status) ==
  [k \in DOMAIN prev |->
     IF prev[k].id = itemId THEN [prev[k] EXCEPT !.status = status]
     ELSE prev[k]]

\* the invocations made so far
Started == {b \in Uploads : uploads[b].at # "idle"}

\* the invocations whose for loop (Index.tsx lines 55-140) is in progress
Running == {b \in Uploads : uploads[b].at \in {"ocr", "delay"}}

\* ImageUpload.tsx line 111 (disabled: processing) and lines 137-140
UploadEnabled == ~processing

\* Index.tsx lines 36-85: handleImageUpload up to its first await, the OCR
\* call of the first file
HandleImageUpload(files) ==
  LET b == Cardinality(Started) + 1
  IN  /\ Cardinality(Started) < MaxUploads
      /\ processing' = TRUE
      /\ showProcessingModal' = TRUE
      /\ currentProcessingIndex' = 1
      /\ processingItems' =
           SetStatus(QueuedItems(b, files), <<b, 1>>, "processing")
      /\ uploads' =
           [uploads EXCEPT
              ![b] = [files |-> files, i |-> 1, newData |-> <<>>, at |-> "ocr"]]
      /\ UNCHANGED <<data, toast, cancelled>>
      /\ UNCHANGED <<extractVars, settingsVars, tableVars>>

\* ImageUpload.tsx lines 35-51 and 105-113: files dropped or chosen
OnUpload(files) ==
  /\ UploadEnabled
  /\ HandleImageUpload(files)

\* Index.tsx lines 77-103 and 139: the OCR call returned a record
OcrReturns(b, extractedData) ==
  LET u == uploads[b]
  IN  /\ u.at = "ocr"
      /\ processingItems' = SetStatus(processingItems, <<b, u.i>>, "complete")
      /\ uploads' =
           [uploads EXCEPT
              ![b].newData =
                Append(u.newData,
                       Row(<<b, u.i>>, u.files[u.i],
                           ExtractedItem(extractedData))),
              ![b].at = "delay"]
      /\ UNCHANGED <<data, processing, currentProcessingIndex,
                     showProcessingModal, toast, cancelled>>
      /\ UNCHANGED <<extractVars, settingsVars, tableVars>>

\* Index.tsx lines 105-136 and 139: the OCR call threw (aiService.ts lines
\* 994-997 and 1011-1014)
OcrThrows(b) ==
  LET u == uploads[b]
  IN  /\ u.at = "ocr"
      /\ processingItems' = SetStatus(processingItems, <<b, u.i>>, "failed")
      /\ uploads' =
           [uploads EXCEPT
              ![b].newData =
                Append(u.newData, Row(<<b, u.i>>, u.files[u.i], FailedItem)),
              ![b].at = "delay"]
      /\ UNCHANGED <<data, processing, currentProcessingIndex,
                     showProcessingModal, toast, cancelled>>
      /\ UNCHANGED <<extractVars, settingsVars, tableVars>>

\* Index.tsx lines 139, 55-85: the delay elapsed and the loop goes to the OCR
\* call of the next file
NextFile(b) ==
  LET u == uploads[b]
  IN  /\ u.at = "delay"
      /\ u.i < Len(u.files)
      /\ currentProcessingIndex' = u.i + 1
      /\ processingItems' =
           SetStatus(processingItems, <<b, u.i + 1>>, "processing")
      /\ uploads' = [uploads EXCEPT ![b].i = u.i + 1, ![b].at = "ocr"]
      /\ UNCHANGED <<data, processing, showProcessingModal, toast, cancelled>>
      /\ UNCHANGED <<extractVars, settingsVars, tableVars>>

IsProcessed(row) == row.processed

\* FinishUpload appending only the rows of the files that were processed
FinishUploadProcessedOnly(b) ==
  LET u == uploads[b]
  IN  /\ u.at = "delay"
      /\ u.i = Len(u.files)
      /\ data' = data \o SelectSeq(u.newData, IsProcessed)
      /\ toast' = "Processing Complete"
      /\ processing' = FALSE
      /\ uploads' = [uploads EXCEPT ![b].at = "closing"]
      /\ UNCHANGED <<processingItems, currentProcessingIndex,
                     showProcessingModal, cancelled>>
      /\ UNCHANGED <<extractVars, settingsVars, tableVars>>

\* Index.tsx lines 139-156 and 165-167: the delay elapsed after the last
\* file; the rows are appended, the toast shown, the flag cleared
FinishUpload(b) ==
  LET u == uploads[b]
  IN  /\ u.at = "delay"
      /\ u.i = Len(u.files)
      /\ data' = data \o u.newData
      /\ toast' = "Processing Complete"
      /\ processing' = FALSE
      /\ uploads' = [uploads EXCEPT ![b].at = "closing"]
      /\ UNCHANGED <<processingItems, currentProcessingIndex,
                     showProcessingModal, cancelled>>
      /\ UNCHANGED <<extractVars, settingsVars, tableVars>>

\* Index.tsx lines 154-156: the timer that closes the modal
CloseModal(b) ==
  /\ uploads[b].at = "closing"
  /\ showProcessingModal' = FALSE
  /\ uploads' = [uploads EXCEPT ![b].at = "ended"]
  /\ UNCHANGED <<data, processing, processingItems, currentProcessingIndex,
                 toast, cancelled>>
  /\ UNCHANGED <<extractVars, settingsVars, tableVars>>

\* Index.tsx lines 170-177, the Cancel button of the modal (lines 335-340,
\* shown while showProcessingModal)
HandleCancelProcessing ==
  /\ showProcessingModal
  /\ processing' = FALSE
  /\ showProcessingModal' = FALSE
  /\ toast' = "Processing Cancelled"
  /\ cancelled' = cancelled \cup Running
  /\ UNCHANGED <<data, processingItems, currentProcessingIndex, uploads>>
  /\ UNCHANGED <<extractVars, settingsVars, tableVars>>

NextBatch ==
  \/ \E files \in FileLists : OnUpload(files)
  \/ \E b \in Uploads, extractedData \in OcrRecords :
       OcrReturns(b, extractedData)
  \/ \E b \in Uploads : OcrThrows(b)
  \/ \E b \in Uploads : NextFile(b)
  \/ \E b \in Uploads : FinishUpload(b)
  \/ \E b \in Uploads : CloseModal(b)
  \/ HandleCancelProcessing

InitPage == Start({""})

SpecBatch == InitPage /\ [][NextBatch]_vars

-----------------------------------------------------------------------------
(* The API key of the settings form (AISettings.tsx) *)

\* the values typed into the key input (line 162)
KeyInputs == {"", " ", "key-1", "key-2"}

\* AISettings.tsx lines 81-84
HandleAPIKeyChange(value) ==
  /\ settings' = [settings EXCEPT !.apiKey = value]
  /\ keyStatus' = "unknown"
  /\ UNCHANGED <<isTestingKey, testing, lastTest>>
  /\ UNCHANGED <<extractVars, indexVars, tableVars>>

\* AISettings.tsx lines 30-42: handleTestAPIKey up to its await; the Test
\* button is disabled while isTestingKey or when the key trims to nothing
\* (line 168), so the branch of lines 31-38 is not taken
HandleTestAPIKey ==
  /\ ~isTestingKey
  /\ trim(settings.apiKey) # ""
  /\ isTestingKey' = TRUE
  /\ testing' = Append(testing, settings.apiKey)
  /\ UNCHANGED <<settings, keyStatus, lastTest, toast>>
  /\ UNCHANGED <<extractVars, tableVars>>
  /\ UNCHANGED <<data, processing, processingItems, currentProcessingIndex,
                 showProcessingModal, uploads, cancelled>>

\* AISettings.tsx lines 42-52 and 59-61: testAPIKey returned isValid
TestReturns(isValid) ==
  /\ testing # <<>>
  /\ keyStatus' = IF isValid THEN "valid" ELSE "invalid"
  /\ toast' = IF isValid THEN "API Key Valid" ELSE "API Key Invalid"
  /\ isTestingKey' = FALSE
  /\ lastTest' = [key |-> Head(testing), isValid |-> isValid]
  /\ testing' = Tail(testing)
  /\ UNCHANGED settings
  /\ UNCHANGED <<extractVars, tableVars>>
  /\ UNCHANGED <<data, processing, processingItems, currentProcessingIndex,
                 showProcessingModal, uploads, cancelled>>

\* AISettings.tsx lines 53-61: testAPIKey threw
TestThrows ==
  /\ testing # <<>>
  /\ keyStatus' = "invalid"
  /\ toast' = "Connection Error"
  /\ isTestingKey' = FALSE
  /\ lastTest' = [key |-> Head(testing), isValid |-> FALSE]
  /\ testing' = Tail(testing)
  /\ UNCHANGED settings
  /\ UNCHANGED <<extractVars, tableVars>>
  /\ UNCHANGED <<data, processing, processingItems, currentProcessingIndex,
                 showProcessingModal, uploads, cancelled>>

NextSettings ==
  \/ \E value \in KeyInputs : HandleAPIKeyChange(value)
  \/ HandleTestAPIKey
  \/ \E isValid \in BOOLEAN : TestReturns(isValid)
  \/ TestThrows

SpecSettings == InitPage /\ [][NextSettings]_vars

-----------------------------------------------------------------------------
(* The editing of a row (DataTable.tsx, Index.tsx) *)

\* updateData putting the edited copy in the place of every row
updateDataEveryRow(prev, id, updatedItem) ==
  [k \in DOMAIN prev |-> updatedItem]

\* Index.tsx lines 183-185: prev.map(item => item.id === id ? updatedItem :
\* item)
updateData(prev, id, updatedItem) ==
  [k \in DOMAIN prev |-> IF prev[k].id = id THEN updatedItem ELSE prev[k]]

\* Index.tsx lines 187-189: prev.filter(item => item.id !== id)
deleteData(prev, id) ==
  LET Other(row) == row.id # id
  IN  SelectSeq(prev, Other)

\* the field and the value of a change in an input of the row being edited
\* (DataTable.tsx lines 128-221)
EditInputs == {<<"sys", 135>>, <<"time", "21:15">>}

\* DataTable.tsx lines 23-26, the Edit button of row k, shown when the row is
\* not the one being edited (lines 250 and 273)
StartEditing(k) ==
  /\ k \in DOMAIN data
  /\ data[k].id # editingId
  /\ editingId' = data[k].id
  /\ editData' = data[k]
  /\ UNCHANGED <<extractVars, indexVars, settingsVars>>

\* DataTable.tsx lines 41-45
UpdateEditData(field, value) ==
  /\ editData # Null
  /\ editData' = [editData EXCEPT ![field] = value]
  /\ UNCHANGED editingId
  /\ UNCHANGED <<extractVars, indexVars, settingsVars>>

\* DataTable.tsx lines 28-31, the button of the row being edited (lines 250
\* and 262)
CancelEditing ==
  /\ editingId # Null
  /\ editingId' = Null
  /\ editData' = Null
  /\ UNCHANGED <<extractVars, indexVars, settingsVars>>

\* DataTable.tsx lines 33-39, the button of the row being edited (line 254),
\* onUpdate being updateData (Index.tsx line 326)
SaveEditing ==
  /\ editData # Null
  /\ data' = updateData(data, editData.id, editData)
  /\ editingId' = Null
  /\ editData' = Null
  /\ UNCHANGED <<processing, processingItems, currentProcessingIndex,
                 showProcessingModal, toast, uploads, cancelled>>
  /\ UNCHANGED <<extractVars, settingsVars>>

\* DataTable.tsx line 281 and Index.tsx lines 187-189: the Delete button of
\* row k, shown when the row is not the one being edited (line 250)
DeleteData(k) ==
  /\ k \in DOMAIN data
  /\ data[k].id # editingId
  /\ data' = deleteData(data, data[k].id)
  /\ UNCHANGED <<processing, processingItems, currentProcessingIndex,
                 showProcessingModal, toast, uploads, cancelled>>
  /\ UNCHANGED <<extractVars, settingsVars, tableVars>>

\* the table over the rows of one upload
NextTable ==
  \/ \E files \in FileLists : Started = {} /\ OnUpload(files)
  \/ \E b \in Uploads, extractedData \in OcrRecords :
       OcrReturns(b, extractedData)
  \/ \E b \in Uploads : OcrThrows(b)
  \/ \E b \in Uploads : NextFile(b)
  \/ \E b \in Uploads : FinishUpload(b)
  \/ \E b \in Uploads : CloseModal(b)
  \/ HandleCancelProcessing
  \/ \E k \in 1..MaxFiles : StartEditing(k)
  \/ \E e \in EditInputs : UpdateEditData(e[1], e[2])
  \/ CancelEditing
  \/ SaveEditing
  \/ \E k \in 1..MaxFiles : DeleteData(k)

SpecTable == InitPage /\ [][NextTable]_vars

-----------------------------------------------------------------------------
(* The properties *)

Fields == {"day", "month", "time", "period", "sys", "dia", "pulse"}

\* the sections of the function, in the order of the source
Stages ==
  <<"preprocess", "month", "day", "date", "time", "timeFallback", "systolic",
    "systolicCorrection", "diastolic", "diastolicCorrection", "pulse",
    "pulseCorrection", "period", "layout", "validate", "done">>

StageOf(p) == CHOOSE i \in 1..Len(Stages) : Stages[i] = p

\* C1: on every text, the empty one too, every step of extractDataFromText
\* is defined and leads to the next section of the function, the last one to
\* the return, and the record returned holds the seven fields day, month,
\* time, period, sys, dia and pulse.
Total ==
  /\ [](pc = "done" => DOMAIN result = Fields)
  /\ [][StageOf(pc') = StageOf(pc) + 1]_vars

\* the empty text has been extracted
TotalWitness == pc = "done" /\ text = "" /\ DOMAIN result = Fields

IsHHMM(t) ==
  /\ Len(t) = 5
  /\ Ch(t, 3) = ":"
  /\ AllDigits(SubSeq(t, 1, 2))
  /\ AllDigits(SubSeq(t, 4, 5))
  /\ DigitsToInt(SubSeq(t, 1, 2), 0) <= 23
  /\ DigitsToInt(SubSeq(t, 4, 5), 0) <= 59

\* C3: the time of the record returned is "" or "HH:MM" with HH in 00..23
\* and MM in 00..59, whatever time-like token the text holds.
TimeValid == pc = "done" => (result.time = "" \/ IsHHMM(result.time))

\* C4: when the processed text holds the three labels sys, dia and pulse and
\* at least three 2-3 digit numbers in 40..250 remain once the numbers equal
\* to the hour or the minute of a time token are removed, the sys, dia and
\* pulse of the record are the first, second and third of them, each 0 when
\* outside the range of its field, whatever the cascades had found.
LayoutOverride ==
  (pc = "done" /\ IsLcdLayout(processedText)
     /\ Len(StandaloneNumbers(processedText)) >= 3) =>
    /\ result.sys = (IF StandaloneNumbers(processedText)[1] \in 70..250
                       THEN StandaloneNumbers(processedText)[1] ELSE 0)
    /\ result.dia = (IF StandaloneNumbers(processedText)[2] \in 40..150
                       THEN StandaloneNumbers(processedText)[2] ELSE 0)
    /\ result.pulse = (IF StandaloneNumbers(processedText)[3] \in 40..200
                         THEN StandaloneNumbers(processedText)[3] ELSE 0)

\* the systolic cascade had found the number of the label, and the record
\* holds the first number of the display instead
LayoutOverrideWitness ==
  /\ pc = "done"
  /\ IsLcdLayout(processedText)
  /\ Len(StandaloneNumbers(processedText)) >= 3
  /\ SystolicLoop(processedText, 0) \notin {0, StandaloneNumbers(processedText)[1]}
  /\ result.sys = StandaloneNumbers(processedText)[1]

FallbackLogs ==
  {"Found pulse from OCR correction",
   "Found pulse from OCR correction (may be BP value)",
   "Found pulse from positional analysis",
   "Found pulse from pulse label area",
   "Fallback: Found pulse"}

\* C6: a step in which a fallback pass assigns pulse gives it a value that
\* differs from the non-zero values sys and dia hold once the step is made.
PulseExclusion ==
  [][(pulseLog' # pulseLog /\ pulseLog' \in FallbackLogs)
       => pulse' \notin BpNumbers(sys', dia')]_vars

\* the soft fallback has given pulse the number left by sys and dia
PulseExclusionWitness ==
  /\ pulseLog = "Fallback: Found pulse"
  /\ sys > 0
  /\ dia > 0
  /\ pulse > 0
  /\ pulse \notin {sys, dia}

\* the words the patterns and the tables look for
RecognizableWords ==
  {"month", "mo", "m", "day", "d", "cm", "mid", "tm", "am", "pm", "a", "morning",
   "afternoon", "systolic", "sys", "s", "diastolic", "dia", "bp", "blood",
   "pressure", "top", "upper", "bottom", "lower", "pulse", "pul", "p", "bpm",
   "min", "heart", "rate", "hr", "r", "coc", "minig", "mmhg"}

\* the maximal runs of word characters of t
Words(t) ==
  {SubSeq(t, i, j) : <<i, j>> \in
     {ij \in (1..Len(t)) \X (1..Len(t)) :
        /\ ij[1] <= ij[2]
        /\ \A k \in ij[1]..ij[2] : Ch(t, k) \in WordCh
        /\ ~IsWordAt(t, ij[1] - 1)
        /\ ~IsWordAt(t, ij[2] + 1)}}

\* no digit, and no word that is a label, a unit, am or pm or a misread token
NoSignal(t) ==
  /\ \A i \in 1..Len(t) : Ch(t, i) \notin Digits
  /\ Words(toLowerCase(t)) \cap RecognizableWords = {}

Sentinels ==
  [day |-> 0, month |-> 0, time |-> "", period |-> "", sys |-> 0, dia |-> 0, pulse |-> 0]

\* C7: a text with no digit and no recognizable word gives the record of the
\* sentinels, also when one of its words contains the letters of a misread
\* token.
SentinelOnNoSignal == (pc = "done" /\ NoSignal(text)) => result = Sentinels

\* C8: preprocessText applied to the processed text gives the processed text.
Idempotent == pc # "preprocess" => preprocessText(processedText) = processedText

\* C9: a text "<M>m <D>d <H>:<MM> pm sys <S> dia <I> pulse <P>", with S, I
\* and P different from H and MM, gives month M, day D, time H:MM, period
\* PM, sys S, dia I and pulse P, for every minute MM of two digits.
DateExample ==
  pc = "done" =>
    \A m \in Months, d \in Days, h \in Hours, mm \in Minutes,
       s \in Systolics, i \in Diastolics, p \in Pulses :
      (/\ text = DateText(m, d, h, mm, s, i, p)
       /\ {Number(s), Number(i), Number(p)} \cap {Number(h), Number(mm)} = {})
        => result = [day |-> Number(d), month |-> Number(m),
                     time |-> padStart2(h) \o ":" \o mm, period |-> "PM",
                     sys |-> Number(s), dia |-> Number(i), pulse |-> Number(p)]

\* C11: a row that reaches the table with sys, dia or pulse at 0 is not
\* stored as processed, and its Status cell shows "Manual Entry".
ManualEntry ==
  (pc = "stored" /\ (item.sys = 0 \/ item.dia = 0 \/ item.pulse = 0)) =>
    (~item.processed /\ ManualEntryBadge(item))

\* C12: without the three labels, a text with a pulse label (pulse, pul or
\* p) directly followed by N in 40..200, with a unit after it or without,
\* gives pulse = N, whatever number stands before the label.
LabelledPulse ==
  (pc = "done" /\ ~IsLcdLayout(processedText)) =>
    \A before \in NumbersBefore, label \in PulseLabels, n \in PulseNumbers,
       unit \in PulseUnits :
      text = PulseText(before, label, n, unit) => result.pulse = Number(n)

\* C13: a text whose only date signal is one token "N/D" or "N-D", N in
\* 1..12 and D in 1..31, gives month = N and day = D.
DateSeparator ==
  pc = "done" =>
    \A n \in Months, sep \in DateSeparators, d \in Days :
      text = SeparatorText(n, sep, d)
        => (result.month = Number(n) /\ result.day = Number(d))

\* C14: when the systolic patterns find nothing and the window around "sys"
\* holds a number W of 100..250, sys is W once the correction is
\* made, also when a 3-digit number stands elsewhere in the text.
LayeredSystolic ==
  pc = "diastolic" =>
    \A far \in FarNumbers, w \in WindowNumbers :
      (text = SysWindowText(far, w) /\ SystolicLoop(processedText, 0) = 0)
        => sys = Number(w)

\* C15: a text of two numbers and no label gives the larger one to sys and
\* the smaller one to dia, whatever their order in the text.
LargerIsSystolic ==
  pc = "done" =>
    \A a \in PairNumbers, b \in PairNumbers :
      (a # b /\ text = PairText(a, b)) =>
        /\ result.sys = Max(Number(a), Number(b))
        /\ result.dia = Min(Number(a), Number(b))
        /\ result.sys >= result.dia

\* C16: without the three labels, the fallback gives sys no number that dia
\* or pulse holds and gives dia no number that sys or pulse holds.
SiblingExclusion ==
  [][(pc = "layout" /\ ~IsLcdLayout(processedText)) =>
       /\ sys' # sys => sys' \notin ({dia, pulse} \ {0})
       /\ dia' # dia => dia' \notin ({sys', pulse} \ {0})]_vars

\* the 2-3 digit numbers in 40..250 that stand apart from the H:MM tokens,
\* in text order
ApartFromTimes(p) ==
  Filter(TwoThreeDigitNumbers(
           Replace(p, ReG(<<B, D(1, 2), Lit(":"), D(2, 2), B>>), <<" ">>)),
         40, 250)

\* C17: with the three labels, a number that stands apart from the time
\* token stays a candidate of the override, also when it equals the hour or
\* the minute: the three first numbers apart from the time tokens are the
\* sys, dia and pulse of the record (0 when outside the field's range).
TimeExclusionByPosition ==
  (pc = "done" /\ IsLcdLayout(processedText)
     /\ Len(ApartFromTimes(processedText)) >= 3) =>
    /\ result.sys = Keep(ApartFromTimes(processedText)[1], 70, 250)
    /\ result.dia = Keep(ApartFromTimes(processedText)[2], 40, 150)
    /\ result.pulse = Keep(ApartFromTimes(processedText)[3], 40, 200)

\* C18: when the diastolic patterns find nothing and the window around
\* "dia" holds no number, a number of 40..150 elsewhere in the text becomes
\* dia.
DiastolicWidens ==
  pc = "done" =>
    \A n \in FarDiastolics :
      (text = DiaFarText(n) /\ DiastolicLoop(processedText, 0) = 0)
        => result.dia = Number(n)

\* C19: when the pulse patterns find nothing, a text that holds a garbled
\* token of the table gives pulse the value of that token, before the
\* layout is looked at: 71 for "coc", 70 for "c0c", 71 for "c1c".
MisreadTable ==
  pc = "period" =>
    \A i \in 1..Len(ocrMisreads) :
      (/\ text = MisreadText(ocrMisreads[i][1])
       /\ PulseLoop(processedText, 0, "").pulse = 0)
        => pulse = ocrMisreads[i][2]

\* C20: a text whose only period signal is am or pm gives AM or PM; without
\* one, "morning" gives AM, "afternoon" PM, and "a.m." and "p.m." AM and PM.
PeriodCascade ==
  pc = "done" =>
    \A i \in 1..Len(PeriodWords) :
      text = PeriodText(PeriodWords[i][1]) => result.period = PeriodWords[i][2]

\* C21: when no time pattern matches, a text with one token "N.MM", "N MM"
\* or "NhMMm", N in 0..23 and MM in 00..59, gives the time "HH:MM" of that
\* hour and minute.
TimeTokenFallback ==
  pc = "done" =>
    \A form \in TimeForms, n \in Hours, mm \in Minutes :
      (/\ text = TimeTokenText(form, n, mm)
       /\ TimeLoop(processedText, "", "").time = "")
        => result.time = padStart2(n) \o ":" \o mm

\* C22: a month or a day pattern that captures a number outside 1..12 or
\* 1..31 leaves the candidate not found: after the month loop month is 0 or
\* in 1..12, and after the day loop day is 0 or in 1..31.
OutOfRangeIsNotFound ==
  /\ pc = "day" => month \in 0..12
  /\ pc = "date" => day \in 0..31

\* C23: when the month and the day loops find nothing, a combined token
\* "NmMd" gives month = N and day = M, also when the text holds two other
\* numbers of 1..31.
CombinedTokenFirst ==
  pc = "done" =>
    \A n \in Months, m \in Days, others \in OtherNumbers :
      (/\ text = CombinedText(n, m, others)
       /\ MonthLoop(processedText, 0) = 0
       /\ DayLoop(processedText, 0) = 0)
        => (result.month = Number(n) /\ result.day = Number(m))

\* C24: the date recovery gives month and day no number that is the hour or
\* the minute of a recognized H:MM token: in a text whose only numbers
\* besides the day token are those of the time, month and day are neither.
NoTimeInDate ==
  pc = "done" =>
    \A h \in Hours, mm \in Minutes :
      (/\ text = DayTimeText(h, mm)
       /\ TimeValues(processedText) = {Number(h), Number(mm)})
        => /\ result.month \notin {Number(h), Number(mm)}
           /\ result.day \notin {Number(h), Number(mm)}

\* C25: a text with no number in 1..12 and no misread month token gives
\* month 0: a day token alone, such as "14d", gives the day only.
MonthNotInvented ==
  pc = "done" =>
    \A d \in LoneDays :
      text = DayOnlyText(d) => (result.month = 0 /\ result.day = Number(d))

\* the positions in rows of the rows pushed by invocation b
RowsOf(b, rows) == {k \in DOMAIN rows : rows[k].id[1] = b}

\* C26: once Cancel has been pressed while the loop of an invocation was
\* running, that loop sends no further file to the OCR service and no row of
\* that invocation is appended to the data list.
CancelStopsBatch ==
  [][\A b \in cancelled :
       /\ ~(uploads[b].at # "ocr" /\ uploads'[b].at = "ocr")
       /\ RowsOf(b, data') = RowsOf(b, data)]_vars

\* C27: while the loop of an invocation is in progress the processing flag
\* is true, and the loops of two invocations are never in progress together.
OneBatchAtATime ==
  /\ \A b \in Running : processing
  /\ Cardinality(Running) <= 1

\* C28: the step that ends the loop of an invocation of n files appends n
\* rows to the data list, the row of each file in the order of the files, a
\* row that is not processed holding the sentinels; no row of an invocation
\* is in the list before that step; and the step in which a file's item
\* becomes 'failed' pushes the all-sentinel row with processed = false and
\* leaves the loop going.
OneRecordPerFile ==
  [][\A b \in Uploads :
       LET u == uploads[b]
           n == Len(u.files)
           appended == SubSeq(data', Len(data) + 1, Len(data'))
           pushed == uploads'[b].newData[Len(uploads'[b].newData)]
       IN  /\ (u.at = "delay" /\ uploads'[b].at = "closing") =>
                /\ data' = data \o appended
                /\ Len(appended) = n
                /\ \A k \in 1..n :
                     /\ appended[k].id = <<b, k>>
                     /\ appended[k].imageUrl = u.files[k]
                     /\ ~appended[k].processed =>
                          [f \in Fields |-> appended[k][f]] = Sentinels
           /\ uploads'[b].at \in {"idle", "ocr", "delay"} =>
                RowsOf(b, data') = {}
           /\ (\E k \in DOMAIN processingItems \cap DOMAIN processingItems' :
                 /\ processingItems[k].id = <<b, u.i>>
                 /\ processingItems[k].status # "failed"
                 /\ processingItems'[k].status = "failed") =>
                /\ Len(uploads'[b].newData) = Len(u.newData) + 1
                /\ pushed.imageUrl = u.files[u.i]
                /\ ~pushed.processed
                /\ [f \in Fields |-> pushed[f]] = Sentinels
                /\ uploads'[b].at = "delay"]_vars

\* an invocation of two files has ended whose first file failed and whose
\* second file was processed, both rows being in the list
OneRecordPerFileWitness ==
  \E b \in Uploads :
    /\ uploads[b].at \in {"closing", "ended"}
    /\ Len(uploads[b].files) = 2
    /\ \E k \in DOMAIN data :
         /\ k + 1 \in DOMAIN data
         /\ data[k].id = <<b, 1>> /\ ~data[k].processed
         /\ data[k + 1].id = <<b, 2>> /\ data[k + 1].processed

\* C29: keyStatus is 'valid' only if the last finished test accepted the key
\* that is in the input, and keyStatus differs from 'unknown' only if the
\* last finished test was a test of the key that is in the input.
KeyStatusFresh ==
  /\ keyStatus = "valid" =>
       (lastTest # Null /\ lastTest.isValid /\ lastTest.key = settings.apiKey)
  /\ keyStatus # "unknown" =>
       (lastTest # Null /\ lastTest.key = settings.apiKey)

\* C30: a step that changes the edited copy or its id and leaves a copy open
\* (startEditing, updateEditData) leaves the data list as it is; a step that
\* closes the copy (cancelEditing, saveEditing) leaves editingId and editData
\* null and the list either as it is or with the one row whose id is the id
\* of the copy replaced by the copy, every other row being unchanged.
EditingOnACopy ==
  [][/\ ((editingId' # editingId \/ editData' # editData) /\ editData' # Null)
          => data' = data
     /\ (editData # Null /\ editData' = Null) =>
          /\ editingId' = Null
          /\ \/ data' = data
             \/ /\ DOMAIN data' = DOMAIN data
                /\ Cardinality({k \in DOMAIN data : data[k].id = editData.id})
                     = 1
                /\ \A k \in DOMAIN data :
                     data'[k] =
                       IF data[k].id = editData.id THEN editData ELSE data[k]
     /\ (editData' = Null) = (editingId' = Null)]_vars

\* a changed copy has been saved: one row of the list holds the typed
\* value, another row does not, and no copy is open
EditingOnACopyWitness ==
  /\ editingId = Null
  /\ editData = Null
  /\ \E j, k \in DOMAIN data : data[j].sys = 135 /\ data[k].sys # 135

====
